---- MODULE Spec2Model ----
(***************************************************************************)
(* Model of the walkie-talkie signalling server (src/server.js): the room  *)
(* registry `rooms`, the per-socket state kept by Socket.IO (socket.rooms, *)
(* socket.userName, socket.currentRoom), and one action per event handler. *)
(*                                                                         *)
(* Socket.IO behaviour the handlers rely on:                               *)
(*  - a connected socket starts in the adapter room named by its own id;   *)
(*  - socket.join / socket.leave add / remove ANY room name, the socket's  *)
(*    own id and other sockets' ids included (names are not validated);    *)
(*  - io.to(r).emit reaches every socket in adapter room r; socket.to(r)   *)
(*    .emit reaches the same sockets except the sender;                    *)
(*  - on close the socket leaves all adapter rooms, then 'disconnect' is   *)
(*    emitted to the handler.                                              *)
(***************************************************************************)
EXTENDS Integers, Sequences, FiniteSets, TLC

\* ------------------------------------------------------------ bounds
NumConns == 2
NumPlainRooms == 1

SocketIdTable == <<"sA", "sB", "sC", "sD">>
PlainRoomTable == <<"R1", "R2", "R3">>

\* socket ids of the connections that may connect
Conns == {SocketIdTable[i] : i \in 1..NumConns}
\* room names that are not the id of any socket
PlainRooms == {PlainRoomTable[i] : i \in 1..NumPlainRooms}
\* the strings a client may put in a `room` or `to` field
Strings == Conns \cup PlainRooms
\* the display names: each client sends its own in `userName`
NameTable == <<"Alice", "Bob", "Carol", "Dave">>
NamesOf(c) == {NameTable[i] : i \in {j \in 1..NumConns : SocketIdTable[j] = c}}
\* opaque negotiation payloads
Payloads == {"sdp"}
RelayKinds == {"offer", "answer", "ice-candidate"}

\* JavaScript `undefined`
Nil == "undefined"

VARIABLES
    status,       \* status[c]: "new" | "connected" | "closed"
    rooms,        \* the registry: room name -> participants (insertion order)
    sockRooms,    \* socket.rooms of each socket (adapter membership)
    userName,     \* socket.userName
    currentRoom,  \* socket.currentRoom
    out,          \* the messages emitted by the last handled event, in order
    last,         \* the last handled event
    prevLeave,    \* the event handled before `last`, when it was a leave-room
    prevRooms,    \* the registry before the last handled event
    joined,       \* history: per room name, the connections that joined it and
                  \* have not left it since, in join order
    commits,      \* history: the mutations of participant maps made by the last
                  \* handled event, in order: [room, participants after it]
    crashed       \* the Node process died of an uncaught exception

vars == <<status, rooms, sockRooms, userName, currentRoom, out, last,
          prevLeave, prevRooms, joined, commits, crashed>>

\* ------------------------------------------------------------ Map helpers
\* participants is a JS Map keyed by socket id; a sequence of its values in
\* insertion order models it (each value carries its key in `id`).
Ids(ps) == {ps[i].id : i \in 1..Len(ps)}

IdSeq(ps) == [i \in 1..Len(ps) |-> ps[i].id]

MapHas(ps, id) == id \in Ids(ps)

MapGet(ps, id) == ps[CHOOSE i \in 1..Len(ps) : ps[i].id = id]

\* Map.prototype.delete: removes the entry, a no-op when the key is absent
MapDelete(ps, id) == SelectSeq(ps, LAMBDA p : p.id # id)

\* Map.prototype.set: an existing key keeps its position, a new key is appended
MapSet(ps, id, v) ==
    IF MapHas(ps, id)
    THEN [i \in 1..Len(ps) |-> IF ps[i].id = id THEN v ELSE ps[i]]
    ELSE Append(ps, v)

\* rooms.delete(name)
RoomsDelete(rs, name) == [r \in (DOMAIN rs) \ {name} |-> rs[r]]

\* rooms.get(name).participants replaced by ps (in-place mutation of the Map)
RoomsPut(rs, name, ps) == [r \in (DOMAIN rs) \cup {name} |-> IF r = name THEN ps ELSE rs[r]]

\* the participant record created by join-room
\* a join that creates the record already talking
NewParticipantTalking(c, name) == [id |-> c, name |-> name, isTalking |-> TRUE]

NewParticipant(c, name) == [id |-> c, name |-> name, isTalking |-> FALSE]

\* ------------------------------------------------------------ emission
\* sockets currently in adapter room r
InAdapterRoom(socks, r) == {c \in Conns : r \in socks[c]}

\* io.to(r): every socket in adapter room r
IoTo(socks, r) == InAdapterRoom(socks, r)

\* socket.to(r): every socket in adapter room r except the sender
SocketTo(socks, c, r) == InAdapterRoom(socks, r) \ {c}

Msg(ev, target, rcpt, participants, userId, uname, isTalking, from, room, payload) ==
    [ev |-> ev, target |-> target, rcpt |-> rcpt, participants |-> participants,
     userId |-> userId, userName |-> uname, isTalking |-> isTalking,
     from |-> from, room |-> room, payload |-> payload]

MembershipMsg(ev, target, rcpt, participants) ==
    Msg(ev, target, rcpt, participants, Nil, Nil, Nil, Nil, Nil, Nil)

TalkingMsg(target, rcpt, userId, uname, isTalking) ==
    Msg("user-talking", target, rcpt, <<>>, userId, uname, isTalking, Nil, Nil, Nil)

RelayMsg(kind, target, rcpt, from, room, payload) ==
    Msg(kind, target, rcpt, <<>>, Nil, Nil, Nil, from, room, payload)

\* ------------------------------------------------------------ history helpers
Event(kind, c, room, to) ==
    [kind |-> kind, conn |-> c, room |-> room, to |-> to,
     wasMember |-> room \in DOMAIN rooms /\ MapHas(rooms[room], c)]

NoEvent == [kind |-> Nil, conn |-> Nil, room |-> Nil, to |-> Nil, wasMember |-> FALSE]

Without(s, c) == SelectSeq(s, LAMBDA x : x # c)

Init ==
    /\ status = [c \in Conns |-> "new"]
    /\ rooms = <<>>
    /\ sockRooms = [c \in Conns |-> {}]
    /\ userName = [c \in Conns |-> Nil]
    /\ currentRoom = [c \in Conns |-> Nil]
    /\ out = <<>>
    /\ last = NoEvent
    /\ prevLeave = NoEvent
    /\ prevRooms = <<>>
    /\ joined = [r \in Strings \cup {Nil} |-> <<>>]
    /\ commits = <<>>
    /\ crashed = FALSE

\* the bookkeeping every handled event does on the history variables; events
\* are handled only while the process is alive
Record(ev) ==
    /\ ~crashed
    /\ crashed' = FALSE
    /\ last' = ev
    /\ prevLeave' = IF last.kind = "leave-room" THEN last ELSE NoEvent
    /\ prevRooms' = rooms

\* io.on('connection'): a new socket, member of the adapter room of its own id
Connect(c) ==
    /\ status[c] = "new"
    /\ status' = [status EXCEPT ![c] = "connected"]
    /\ sockRooms' = [sockRooms EXCEPT ![c] = {c}]
    /\ out' = <<>>
    /\ commits' = <<>>
    /\ Record(Event("connection", c, Nil, Nil))
    /\ UNCHANGED <<rooms, userName, currentRoom, joined>>

\* ------------------------------------------------------------ handlers
\* The handlers thread a record st = [rooms, socks, out, commits] through
\* their statements: the registry, socket.rooms of every socket, the emissions
\* so far, and the participant-map mutations so far.

\* the history of st extended by a mutation of room's participants, when the
\* statement changed the map (a delete of an absent key changes nothing)
Mutated(st, room, changed, ps) ==
    IF changed
    THEN Append(st.commits, [room |-> room, participants |-> ps])
    ELSE st.commits

\* the forEach callback with the `size === 0` branch lost: the room a switch
\* emptied stays in the registry
LeaveExistingKeepsEmpty(c, roomName, st) ==
    IF roomName = c THEN st
    ELSE
      LET socks1 == [st.socks EXCEPT ![c] = @ \ {roomName}] IN
      IF roomName \notin DOMAIN st.rooms
      THEN [st EXCEPT !.socks = socks1]
      ELSE
        LET ps == MapDelete(st.rooms[roomName], c) IN
        IF Len(ps) = 0
        THEN [st EXCEPT !.socks = socks1, !.rooms = RoomsPut(st.rooms, roomName, ps)]
        ELSE [st EXCEPT !.socks = socks1,
                        !.rooms = RoomsPut(st.rooms, roomName, ps),
                        !.out = Append(st.out,
                                  MembershipMsg("user-left", roomName,
                                                SocketTo(socks1, c, roomName), ps))]

\* join-room, body of the forEach callback for one roomName: leave the
\* adapter room, drop the participant, delete the room when it became empty,
\* otherwise tell the others
LeaveExisting(c, roomName, st) ==
    IF roomName = c THEN st
    ELSE
      LET socks1 == [st.socks EXCEPT ![c] = @ \ {roomName}] IN
      IF roomName \notin DOMAIN st.rooms
      THEN [st EXCEPT !.socks = socks1]
      ELSE
        LET ps  == MapDelete(st.rooms[roomName], c)
            log == Mutated(st, roomName, MapHas(st.rooms[roomName], c), ps)
        IN
        IF Len(ps) = 0
        THEN [st EXCEPT !.socks = socks1, !.commits = log,
                        !.rooms = RoomsDelete(st.rooms, roomName)]
        ELSE [st EXCEPT !.socks = socks1, !.commits = log,
                        !.rooms = RoomsPut(st.rooms, roomName, ps),
                        !.out = Append(st.out,
                                  MembershipMsg("user-left", roomName,
                                                SocketTo(socks1, c, roomName), ps))]

\* socket.rooms.forEach(...) over the room names in `names`
RECURSIVE ForEachRoom(_, _, _)
ForEachRoom(c, names, st) ==
    IF names = {} THEN st
    ELSE LET roomName == CHOOSE x \in names : TRUE IN
         ForEachRoom(c, names \ {roomName}, LeaveExisting(c, roomName, st))

\* join-room after the forEach: join the adapter room, create the room when
\* absent, set the participant, broadcast the list to the whole room
JoinNew(c, room, uname, st) ==
    LET socks2 == [st.socks EXCEPT ![c] = @ \cup {room}]
        rooms2 == IF room \in DOMAIN st.rooms THEN st.rooms
                  ELSE RoomsPut(st.rooms, room, <<>>)
        ps     == MapSet(rooms2[room], c, NewParticipant(c, uname))
    IN [rooms |-> RoomsPut(rooms2, room, ps),
        socks |-> socks2,
        out   |-> Append(st.out,
                    MembershipMsg("user-joined", room, IoTo(socks2, room), ps)),
        commits |-> Mutated(st, room, TRUE, ps)]

\* handleUserLeave with the `size === 0` branch lost: the emptied room stays
HandleUserLeaveKeepsEmpty(c, room, st) ==
    LET socks1 == [st.socks EXCEPT ![c] = @ \ {room}] IN
    IF room \notin DOMAIN st.rooms
    THEN [st EXCEPT !.socks = socks1]
    ELSE
      LET ps == MapDelete(st.rooms[room], c) IN
      IF Len(ps) = 0
      THEN [st EXCEPT !.socks = socks1, !.rooms = RoomsPut(st.rooms, room, ps)]
      ELSE [st EXCEPT !.socks = socks1,
                      !.rooms = RoomsPut(st.rooms, room, ps),
                      !.out = Append(st.out,
                                MembershipMsg("user-left", room,
                                              SocketTo(st.socks, c, room), ps))]

\* handleUserLeave that drops the newest participant when the leaver is not
\* in the room (a count decremented instead of a keyed delete)
HandleUserLeaveDoubleDecrement(c, room, st) ==
    LET socks1 == [st.socks EXCEPT ![c] = @ \ {room}] IN
    IF room \notin DOMAIN st.rooms
    THEN [st EXCEPT !.socks = socks1]
    ELSE
      LET old == st.rooms[room]
          ps  == IF MapHas(old, c) THEN MapDelete(old, c)
                 ELSE SubSeq(old, 1, Len(old) - 1)
      IN
      IF Len(ps) = 0
      THEN [st EXCEPT !.socks = socks1, !.rooms = RoomsDelete(st.rooms, room)]
      ELSE [st EXCEPT !.socks = socks1,
                      !.rooms = RoomsPut(st.rooms, room, ps),
                      !.out = Append(st.out,
                                MembershipMsg("user-left", room,
                                              SocketTo(st.socks, c, room), ps))]

\* handleUserLeave(socket, room)
HandleUserLeave(c, room, st) ==
    LET socks1 == [st.socks EXCEPT ![c] = @ \ {room}] IN
    IF room \notin DOMAIN st.rooms
    THEN [st EXCEPT !.socks = socks1]
    ELSE
      LET ps  == MapDelete(st.rooms[room], c)
          log == Mutated(st, room, MapHas(st.rooms[room], c), ps)
      IN
      IF Len(ps) = 0
      THEN [st EXCEPT !.socks = socks1, !.commits = log,
                      !.rooms = RoomsDelete(st.rooms, room)]
      ELSE [st EXCEPT !.socks = socks1, !.commits = log,
                      !.rooms = RoomsPut(st.rooms, room, ps),
                      !.out = Append(st.out,
                                MembershipMsg("user-left", room,
                                              SocketTo(st.socks, c, room), ps))]

\* start/stop-talking with `participants.has(socket.id)` lost from the guard
SetTalkingNoHasCheck(c, room, flag, st) ==
    IF room \in DOMAIN st.rooms
    THEN LET ps == IF MapHas(st.rooms[room], c)
                   THEN MapSet(st.rooms[room], c,
                               [MapGet(st.rooms[room], c) EXCEPT !.isTalking = flag])
                   ELSE st.rooms[room]
         IN [st EXCEPT !.rooms = RoomsPut(st.rooms, room, ps),
                       !.out = Append(st.out,
                                 TalkingMsg(room, SocketTo(st.socks, c, room),
                                            c, userName[c], flag))]
    ELSE st

\* start-talking / stop-talking: the two handlers differ in the flag only
SetTalking(c, room, flag, st) ==
    IF room \in DOMAIN st.rooms /\ MapHas(st.rooms[room], c)
    THEN LET user == MapGet(st.rooms[room], c)
             ps   == MapSet(st.rooms[room], c, [user EXCEPT !.isTalking = flag])
         IN [st EXCEPT !.rooms = RoomsPut(st.rooms, room, ps),
                       !.out = Append(st.out,
                                 TalkingMsg(room, SocketTo(st.socks, c, room),
                                            c, userName[c], flag))]
    ELSE st

\* offer / answer / ice-candidate: socket.to(to).emit(kind, {payload, from, room})
RelayTo(kind, c, to, room, payload, st) ==
    [st EXCEPT !.out = Append(st.out,
                         RelayMsg(kind, to, SocketTo(st.socks, c, to), c, room, payload))]

\* the strings a client can send as a room name or a relay target: any plain
\* name, and the id of any socket that has connected (ids are generated by the
\* server and published in every participants list, so a client knows the ids
\* that exist and cannot know an id before it exists)
KnownStrings == PlainRooms \cup {c \in Conns : status[c] # "new"}

\* the state a handler starts from
Start == [rooms |-> rooms, socks |-> sockRooms, out |-> <<>>, commits |-> <<>>]

Commit(st) ==
    /\ rooms' = st.rooms
    /\ sockRooms' = st.socks
    /\ out' = st.out
    /\ commits' = st.commits

\* ------------------------------------------------------------ actions
JoinRoom(c, room, uname) ==
    /\ status[c] = "connected"
    /\ Commit(JoinNew(c, room, uname, ForEachRoom(c, sockRooms[c], Start)))
    /\ userName' = [userName EXCEPT ![c] = uname]
    /\ currentRoom' = [currentRoom EXCEPT ![c] = room]
    /\ joined' = [r \in DOMAIN joined |->
                    IF r = room THEN Append(Without(joined[r], c), c)
                    ELSE Without(joined[r], c)]
    /\ Record(Event("join-room", c, room, Nil))
    /\ UNCHANGED status

StartTalking(c, room) ==
    /\ status[c] = "connected"
    /\ Commit(SetTalking(c, room, TRUE, Start))
    /\ Record(Event("start-talking", c, room, Nil))
    /\ UNCHANGED <<status, userName, currentRoom, joined>>

StopTalking(c, room) ==
    /\ status[c] = "connected"
    /\ Commit(SetTalking(c, room, FALSE, Start))
    /\ Record(Event("stop-talking", c, room, Nil))
    /\ UNCHANGED <<status, userName, currentRoom, joined>>

Relay(kind, c, to, room, payload) ==
    /\ status[c] = "connected"
    /\ Commit(RelayTo(kind, c, to, room, payload, Start))
    /\ Record(Event(kind, c, room, to))
    /\ UNCHANGED <<status, userName, currentRoom, joined>>

Offer(c, to, room, payload) == Relay("offer", c, to, room, payload)

Answer(c, to, room, payload) == Relay("answer", c, to, room, payload)

IceCandidate(c, to, room, payload) == Relay("ice-candidate", c, to, room, payload)

LeaveRoom(c, room) ==
    /\ status[c] = "connected"
    /\ Commit(HandleUserLeave(c, room, Start))
    /\ joined' = [joined EXCEPT ![room] = Without(@, c)]
    /\ Record(Event("leave-room", c, room, Nil))
    /\ UNCHANGED <<status, userName, currentRoom>>

\* the socket closes: Socket.IO takes it out of every adapter room, then the
\* 'disconnect' handler runs
Disconnect(c) ==
    /\ status[c] = "connected"
    /\ status' = [status EXCEPT ![c] = "closed"]
    /\ LET closed == [Start EXCEPT !.socks = [sockRooms EXCEPT ![c] = {}]] IN
       IF currentRoom[c] # Nil
       THEN Commit(HandleUserLeave(c, currentRoom[c], closed))
       ELSE Commit(closed)
    /\ joined' = [r \in DOMAIN joined |-> Without(joined[r], c)]
    /\ Record(Event("disconnect", c, currentRoom[c], Nil))
    /\ UNCHANGED <<userName, currentRoom>>

\* setInterval: delete every room that has no participant
Sweep ==
    /\ rooms' = [r \in {x \in DOMAIN rooms : Len(rooms[x]) # 0} |-> rooms[r]]
    /\ out' = <<>>
    /\ commits' = <<>>
    /\ Record(Event("sweep", Nil, Nil, Nil))
    /\ UNCHANGED <<status, sockRooms, userName, currentRoom, joined>>

Next ==
    \/ \E c \in Conns : Connect(c)
    \/ \E c \in Conns, room \in KnownStrings : \E uname \in NamesOf(c) : JoinRoom(c, room, uname)
    \/ \E c \in Conns, room \in KnownStrings : StartTalking(c, room)
    \/ \E c \in Conns, room \in KnownStrings : StopTalking(c, room)
    \/ \E c \in Conns, to \in KnownStrings, room \in PlainRooms, p \in Payloads : Offer(c, to, room, p)
    \/ \E c \in Conns, to \in KnownStrings, room \in PlainRooms, p \in Payloads : Answer(c, to, room, p)
    \/ \E c \in Conns, to \in KnownStrings, room \in PlainRooms, p \in Payloads : IceCandidate(c, to, room, p)
    \/ \E c \in Conns, room \in KnownStrings : LeaveRoom(c, room)
    \/ \E c \in Conns : Disconnect(c)
    \/ Sweep

Spec == Init /\ [][Next]_vars

\* The same server with clients that only name plain rooms (never a socket
\* id) in join-room, start/stop-talking and leave-room; relay targets are
\* still any known string.
NextPlain ==
    \/ \E c \in Conns : Connect(c)
    \/ \E c \in Conns, room \in PlainRooms : \E uname \in NamesOf(c) : JoinRoom(c, room, uname)
    \/ \E c \in Conns, room \in PlainRooms : StartTalking(c, room)
    \/ \E c \in Conns, room \in PlainRooms : StopTalking(c, room)
    \/ \E c \in Conns, to \in KnownStrings, room \in PlainRooms, p \in Payloads : Offer(c, to, room, p)
    \/ \E c \in Conns, to \in KnownStrings, room \in PlainRooms, p \in Payloads : Answer(c, to, room, p)
    \/ \E c \in Conns, to \in KnownStrings, room \in PlainRooms, p \in Payloads : IceCandidate(c, to, room, p)
    \/ \E c \in Conns, room \in PlainRooms : LeaveRoom(c, room)
    \/ \E c \in Conns : Disconnect(c)
    \/ Sweep

SpecPlain == Init /\ [][NextPlain]_vars

\* An event that arrives with no payload at all: every handler destructures
\* its argument (`({ room, userName }) => ...`), which throws a TypeError on
\* undefined; nothing catches it, so the process dies.
MissingPayload(c, kind) ==
    /\ status[c] = "connected"
    /\ ~crashed
    /\ crashed' = TRUE
    /\ out' = <<>>
    /\ commits' = <<>>
    /\ last' = [Event(kind, c, Nil, Nil) EXCEPT !.kind = "no-payload"]
    /\ prevLeave' = NoEvent
    /\ prevRooms' = rooms
    /\ UNCHANGED <<status, rooms, sockRooms, userName, currentRoom, joined>>

PayloadKinds == RelayKinds \cup {"join-room", "start-talking", "stop-talking", "leave-room"}

\* the values of a `room` field: a plain name, or undefined when the payload
\* object lacks the field
RoomFields == PlainRooms \cup {Nil}

\* the values of a `to` field: a known string, or undefined when missing
ToFields == KnownStrings \cup {Nil}

\* The server with clients that also send malformed events: a payload object
\* that lacks `room` or `to` (the field destructures to undefined and the
\* handler runs on), or no payload at all.
NextMalformed ==
    \/ \E c \in Conns : Connect(c)
    \/ \E c \in Conns, room \in RoomFields : \E uname \in NamesOf(c) : JoinRoom(c, room, uname)
    \/ \E c \in Conns, room \in RoomFields : StartTalking(c, room)
    \/ \E c \in Conns, room \in RoomFields : StopTalking(c, room)
    \/ \E c \in Conns, to \in ToFields, room \in PlainRooms, p \in Payloads : Offer(c, to, room, p)
    \/ \E c \in Conns, to \in ToFields, room \in PlainRooms, p \in Payloads : Answer(c, to, room, p)
    \/ \E c \in Conns, to \in ToFields, room \in PlainRooms, p \in Payloads : IceCandidate(c, to, room, p)
    \/ \E c \in Conns, room \in RoomFields : LeaveRoom(c, room)
    \/ \E c \in Conns, kind \in PayloadKinds : MissingPayload(c, kind)
    \/ \E c \in Conns : Disconnect(c)
    \/ Sweep

SpecMalformed == Init /\ [][NextMalformed]_vars

\* ------------------------------------------------------------ claims
\* the rooms of registry rs that connection c is a participant of
RoomsOf(rs, c) == {r \in DOMAIN rs : MapHas(rs[r], c)}

IsMember(rs, r, c) == r \in DOMAIN rs /\ MapHas(rs[r], c)

MembershipEvs == {"user-joined", "user-left"}

\* C1: in every reachable state each connection is a participant of at most
\* one room of the registry, whatever strings the clients chose as room names.
C1_AtMostOneRoom ==
    \A c \in Conns : Cardinality(RoomsOf(rooms, c)) <= 1

\* C2: the participants list of every user-joined / user-left broadcast is
\* exactly the connections that joined the room and have not left it when the
\* operation committed, in join order. (A user-left is committed before the
\* sender is added again by the same join-room.)
C2_BroadcastIsJoinedNotLeft ==
    \A i \in 1..Len(out) :
        out[i].ev \in MembershipEvs =>
            IdSeq(out[i].participants) =
                IF out[i].ev = "user-left"
                THEN Without(joined[out[i].target], last.conn)
                ELSE joined[out[i].target]

\* C3: a relay sent by A with to = X reaches no connection other than X, and
\* the delivered message carries from = A and the room field unmodified.
C3_RelayOnlyToTarget ==
    last.kind \in RelayKinds =>
        \A i \in 1..Len(out) :
            /\ out[i].rcpt \subseteq {last.to}
            /\ out[i].from = last.conn
            /\ out[i].room = last.room

\* C4: when a participant of room A sends join-room for a different room B,
\* afterwards A does not contain it, B contains it, and every user-left of the
\* event is emitted before its user-joined.
C4_SwitchLeavesOldRoomFirst ==
    last.kind = "join-room" =>
        \A a \in RoomsOf(prevRooms, last.conn) \ {last.room} :
            /\ ~IsMember(rooms, a, last.conn)
            /\ IsMember(rooms, last.room, last.conn)
            /\ \A i, j \in 1..Len(out) :
                   (out[i].ev = "user-left" /\ out[j].ev = "user-joined") => i < j

\* C5: when an event removes the last participant of a room (leave-room,
\* disconnect, or the implicit leave of a room switch), the room is absent
\* from the registry right after that event, with no sweep in between.
C5_LastLeaveDeletesRoom ==
    last.kind \in {"leave-room", "disconnect", "join-room"} =>
        \A r \in DOMAIN prevRooms :
            (Ids(prevRooms[r]) = {last.conn} /\ ~IsMember(rooms, r, last.conn))
                => r \notin DOMAIN rooms

\* C5 witness: a connection disconnected while sole participant of its room,
\* and the room is gone.
C5_Witness ==
    /\ last.kind = "disconnect"
    /\ last.wasMember
    /\ Ids(prevRooms[last.room]) = {last.conn}
    /\ last.room \notin DOMAIN rooms

\* C6: a membership broadcast is delivered to exactly the participants of the
\* room after the mutation; a user-left never reaches the departing connection.
C6_BroadcastReachesExactlyRoom ==
    \A i \in 1..Len(out) :
        out[i].ev \in MembershipEvs =>
            /\ out[i].ev = "user-joined" => out[i].rcpt = Ids(out[i].participants)
            /\ out[i].ev = "user-left" =>
                   /\ out[i].rcpt = Ids(out[i].participants) \ {last.conn}
                   /\ last.conn \notin out[i].rcpt

\* C7: start-talking (stop-talking) by a participant c of room r sets c's flag
\* in r and delivers one user-talking with userId = c, c's display name and
\* the flag to every other participant of r and to no one else.
C7_TalkingReachesOthersOnly ==
    (last.kind \in {"start-talking", "stop-talking"} /\ last.wasMember) =>
        LET flag == (last.kind = "start-talking")
            me   == MapGet(rooms[last.room], last.conn)
        IN /\ me.isTalking = flag
           /\ Len(out) = 1
           /\ out[1].ev = "user-talking"
           /\ out[1].userId = last.conn
           /\ out[1].userName = me.name
           /\ out[1].isTalking = flag
           /\ out[1].rcpt = Ids(rooms[last.room]) \ {last.conn}

\* C8: start/stop-talking from a connection that is not a participant of the
\* named room changes nothing in the registry and emits nothing.
C8_TalkingByOutsiderIsNoop ==
    (last.kind \in {"start-talking", "stop-talking"} /\ ~last.wasMember) =>
        /\ rooms = prevRooms
        /\ out = <<>>

\* C8 witness: start-talking named an existing room the sender is not in.
C8_Witness ==
    /\ last.kind = "start-talking"
    /\ ~last.wasMember
    /\ last.room \in DOMAIN rooms
    /\ RoomsOf(rooms, last.conn) # {}

\* the last two events were a leave of the same connection and room: a
\* leave-room that removed it, then a leave-room or the disconnect
SecondLeave ==
    /\ prevLeave.kind = "leave-room"
    /\ prevLeave.wasMember
    /\ last.kind \in {"leave-room", "disconnect"}
    /\ last.conn = prevLeave.conn
    /\ last.room = prevLeave.room

\* C9: the second of two leaves in a row for the same connection and room
\* emits no user-left while the room still has other participants.
C9_SecondLeaveEmitsNothing ==
    (SecondLeave /\ last.room \in DOMAIN rooms) =>
        \A i \in 1..Len(out) : out[i].ev # "user-left"

\* C10: the second of two leaves in a row for the same connection and room
\* leaves the registry (the rooms and every participant list) as it was.
C10_SecondLeaveKeepsRegistry ==
    SecondLeave => rooms = prevRooms

\* C10 witness: leave-room then disconnect, the room still held by another.
C10_Witness ==
    /\ SecondLeave
    /\ last.kind = "disconnect"
    /\ last.room \in DOMAIN rooms

\* C11: a leave-room naming a room the sender is not a participant of is a
\* no-op: the registry is unchanged and no message is emitted to anyone.
C11_StrayLeaveIsNoop ==
    (last.kind = "leave-room" /\ ~last.wasMember) =>
        /\ rooms = prevRooms
        /\ out = <<>>

\* the participant lists of the membership broadcasts of the last event that
\* connection c received for room r, in the order received
Received(c, r) ==
    LET ms == SelectSeq(out, LAMBDA m : /\ m.ev \in MembershipEvs
                                        /\ m.target = r
                                        /\ c \in m.rcpt)
    IN [i \in 1..Len(ms) |-> IdSeq(ms[i].participants)]

\* the participant lists of room r after each join / leave the last event
\* committed against it, in commit order
CommittedLists(r) ==
    LET cs == SelectSeq(commits, LAMBDA x : x.room = r)
    IN [i \in 1..Len(cs) |-> IdSeq(cs[i].participants)]

\* connection c was a participant of r before the last event and still is,
\* without having re-joined in between
Stays(c, r) ==
    /\ status[c] = "connected"
    /\ IsMember(prevRooms, r, c)
    /\ IsMember(rooms, r, c)
    /\ ~(last.kind = "join-room" /\ last.conn = c)

\* C12: a connection that stays a participant of a room receives, for every
\* event, exactly one membership broadcast per join / leave committed against
\* the room, in commit order, each carrying the membership as of that commit;
\* so its k-th broadcast is the membership of the k-th committed operation.
C12_BroadcastsFollowCommits ==
    \A c \in Conns : \A r \in DOMAIN rooms :
        Stays(c, r) => Received(c, r) = CommittedLists(r)

\* C13: once a connection's disconnect has been handled it is a participant
\* of no room of the registry.
C13_ClosedIsNowhere ==
    \A c \in Conns : status[c] = "closed" => RoomsOf(rooms, c) = {}

\* C14: after every event each room of the registry has at least one
\* participant, and a sweep tick, wherever it falls, removes nothing.
C14_NoEmptyRoomSweepIdle ==
    /\ \A r \in DOMAIN rooms : Len(rooms[r]) >= 1
    /\ last.kind = "sweep" => rooms = prevRooms

\* C14 witness: a sweep tick ran over a registry that holds rooms, after a
\* leave-room, and left it as it was.
C14_Witness ==
    /\ last.kind = "sweep"
    /\ DOMAIN rooms # {}
    /\ prevLeave.kind = "leave-room"
    /\ prevLeave.wasMember
    /\ rooms = prevRooms

\* C15: the recorded current room of a live connection is r exactly when the
\* connection is a participant of r; a connection in no room records none
\* (so after leave-room it is Unjoined).
C15_CurrentRoomAgreesWithRegistry ==
    \A c \in Conns : status[c] = "connected" =>
        \A r \in Strings : (currentRoom[c] = r) <=> IsMember(rooms, r, c)

\* C16: a relay whose `to` names a connected connection X (other than the
\* sender, which socket.to always excludes) is delivered to X whatever the
\* room memberships are, and handling it leaves the registry unchanged.
C16_RelayReachesConnectedTarget ==
    (/\ last.kind \in RelayKinds
     /\ last.to \in Conns
     /\ last.to # last.conn
     /\ status[last.to] = "connected") =>
        /\ Len(out) = 1
        /\ last.to \in out[1].rcpt
        /\ rooms = prevRooms

\* the last event lacked a required field: no payload at all, no `room` in
\* join-room / start-talking / stop-talking / leave-room, or no `to` in a relay
Malformed ==
    \/ last.kind = "no-payload"
    \/ /\ last.kind \in {"join-room", "start-talking", "stop-talking", "leave-room"}
       /\ last.room = Nil
    \/ /\ last.kind \in RelayKinds
       /\ last.to = Nil

\* C17: an event with a missing required field is ignored: the registry is
\* unchanged, nothing is delivered to anyone, and the process does not crash.
C17_MalformedIsIgnored ==
    Malformed =>
        /\ rooms = prevRooms
        /\ \A i \in 1..Len(out) : out[i].rcpt = {}
        /\ ~crashed

\* C18: a join-room for the room the connection is already a participant of
\* is a leave-then-join: afterwards the connection is in the list exactly once
\* and last, nobody else was removed, and the others got user-left with a
\* list omitting it and then user-joined with a list including it.
C18_RejoinIsLeaveThenJoin ==
    (last.kind = "join-room" /\ last.wasMember) =>
        LET r      == last.room
            c      == last.conn
            others == Ids(prevRooms[r]) \ {c}
        IN /\ r \in DOMAIN rooms
           /\ LET ps == IdSeq(rooms[r])
              IN /\ Len(ps) >= 1
                 /\ ps[Len(ps)] = c
                 /\ Cardinality({i \in 1..Len(ps) : ps[i] = c}) = 1
           /\ Ids(rooms[r]) = Ids(prevRooms[r])
           /\ others # {} =>
                \E i, j \in 1..Len(out) :
                    /\ i < j
                    /\ out[i].ev = "user-left"
                    /\ out[i].target = r
                    /\ others \subseteq out[i].rcpt
                    /\ c \notin Ids(out[i].participants)
                    /\ out[j].ev = "user-joined"
                    /\ out[j].target = r
                    /\ others \subseteq out[j].rcpt
                    /\ c \in Ids(out[j].participants)

\* the last event was connection c sending kind for room r
LastWas(kind, c, r) == last.kind = kind /\ last.conn = c /\ last.room = r

\* C19: a record created by a join starts with isTalking = false, and a
\* record's isTalking is true only if its connection sent start-talking for
\* that room since the join that created the record, with no stop-talking
\* after it. Stated over one step: a record that is talking now either was
\* just set by the connection's own start-talking for that room, or was
\* talking before and the step was neither that connection's join nor its
\* stop-talking for that room.
C19_TalkingOnlyAfterStart ==
    /\ last.kind = "join-room" =>
         /\ IsMember(rooms, last.room, last.conn)
         /\ ~MapGet(rooms[last.room], last.conn).isTalking
    /\ \A r \in DOMAIN rooms : \A i \in 1..Len(rooms[r]) :
         LET c == rooms[r][i].id
         IN rooms[r][i].isTalking =>
              \/ LastWas("start-talking", c, r)
              \/ /\ IsMember(prevRooms, r, c)
                 /\ MapGet(prevRooms[r], c).isTalking
                 /\ ~LastWas("join-room", c, r)
                 /\ ~LastWas("stop-talking", c, r)

\* a connection that was talking re-joined its room, and its record is silent
C19_Witness ==
    /\ last.kind = "join-room"
    /\ last.wasMember
    /\ MapGet(prevRooms[last.room], last.conn).isTalking
    /\ ~MapGet(rooms[last.room], last.conn).isTalking

====
